---- MODULE Spec2Model ----
(***************************************************************************)
(* Offer Optimizer (optimizer_api.py): OfferOptimizer.evaluate_offer and   *)
(* OfferOptimizer.optimize_offers as a state machine.                      *)
(*                                                                         *)
(* Numbers.  The program computes in floating point; the model computes in *)
(* fixed point.  Money (copcar, prices, bounds) is an integer number of    *)
(* money units, UnitsPerCurrency units making 1.0; objective values, the   *)
(* dilution rate, the exponential, the sigmoid and the retention score are *)
(* integers in units of 1/Scale, with Scale = 10^8.  Probabilities and     *)
(* conversion rates are tenths (8 is 0.8), the weights are tenths too.     *)
(* Requests are drawn so that the price bounds (multiples of 0.05 of the   *)
(* inputs) are whole and even numbers of money units, which makes the      *)
(* midpoint of every box a whole number too.  Products and quotients of    *)
(* values are rounded down to a unit of 1/Scale (Times, Over); every       *)
(* intermediate number stays below 2^31.  The amounts are small (copcar    *)
(* 0.04 and 0.08) so that prices on both sides of the 0.01 of              *)
(* max(price, 0.01) occur.                                                 *)
(*                                                                         *)
(* The bounded solver (scipy.optimize.minimize, SLSQP) is not part of the  *)
(* repository: it is a nondeterministic choice of success or failure and,  *)
(* on success, of a point of the box it is given (an end of the box or the *)
(* starting point), with fun the objective there.  On a box with low >     *)
(* high it raises ValueError.                                              *)
(*                                                                         *)
(* The class has two entry points, and so has the model: a call of         *)
(* optimize_offers (pc = "loop", then "done" or "failed"), one step per    *)
(* pass of the loop body, and direct calls of evaluate_offer (pc = "eval").*)
(***************************************************************************)
EXTENDS Integers, Sequences, FiniteSets, TLC

VARIABLES
    request,       \* the OptimizationRequest of this call
    pc,            \* "loop" | "done" | "failed": where optimize_offers is;
                   \* "eval": direct calls of evaluate_offer
    pos,           \* index, in visiting order, of the next (model, offer) pair
    best_value,    \* the accumulator of optimize_offers (lines 106-109)
    best_model,
    best_offer,
    best_price,
    price_bounds,  \* local of optimize_offers: the last bounds computed
    result,        \* local of optimize_offers: the last solver result
    response,      \* the OptimizationResponse returned, empty before
    error,         \* the HTTPException raised, empty before
    log,           \* what logger.error has written
    evaluated,     \* the last direct call of evaluate_offer: its price and value
    n_success,     \* history: solver runs that reported success
    top_value,     \* history: greatest score among them
    top_first      \* history: the first pair, in visiting order, with that score

vars == <<request, pc, pos, best_value, best_model, best_offer, best_price,
          price_bounds, result, response, error, log, evaluated,
          n_success, top_value, top_first>>

-----------------------------------------------------------------------------
(* Bounds of the model. *)

MaxModels == 2
MaxPairs == 2

(* Fixed-point resolution. *)
UnitsPerCurrency == 10 ^ 3      \* one money unit is 0.001
Scale == 10 ^ 8                 \* one value unit is 0.00000001

(* Inputs of optimize_offers. *)
CustomerIds == {"CUST001"}
CopcarValues == {40, 80}
PriceValues == {10, 40, 80}
RateValues == {2}
ProbabilityValues == {8}
CategoryValues == {"retention", "growth"}
\* arguments of the direct calls of evaluate_offer
EvalRates == {1, 5, 10}
EvalProbabilities == {0, 5, 10}

-----------------------------------------------------------------------------
(* The program's constants. *)

RETENTION == "retention"
ModelCategory == {RETENTION, "growth", "acquisition", "other"}

\* self.k, the sigmoid steepness
k == 5
\* self.weights, in tenths
weights == [profit |-> 10, retention |-> 15, efficiency |-> 3, probability |-> 5]
\* the 0.01 of max(price, 0.01), in money units
PriceFloor == (UnitsPerCurrency \div 100)

\* None, for the references and prices that are not yet set
None == 0

-----------------------------------------------------------------------------
(* Floats that may be infinite: inf is -1, 0 (finite) or 1. *)

Fin(v) == [inf |-> 0, v |-> v]
NegInf == [inf |-> -1, v |-> 0]
Neg(a) == [inf |-> 0 - a.inf, v |-> 0 - a.v]
GT(a, b) == IF a.inf # 0 \/ b.inf # 0 THEN a.inf > b.inf ELSE a.v > b.v
GE(a, b) == ~GT(b, a)
IsFinite(a) == a.inf = 0

Min(a, b) == IF a <= b THEN a ELSE b
Max(a, b) == IF a >= b THEN a ELSE b

-----------------------------------------------------------------------------
(* The Objective Evaluator. *)

\* The product a * b of two values in units of 1/Scale, rounded down to a
\* unit: the factors are split at Half so that no partial product overflows.
Half == 10 ^ 4
Times(a, b) ==
    LET a1 == a \div Half
        a0 == a % Half
        b1 == b \div Half
        b0 == b % Half
    IN  (a1 * b1) + (((a1 * b0) + (a0 * b1) + ((a0 * b0) \div Half)) \div Half)

\* (r * 10^n) \div b by long division, one decimal digit a step
RECURSIVE Digits(_, _, _)
Digits(r, b, n) ==
    IF n = 0 THEN r \div b
    ELSE ((r \div b) * (10 ^ n)) + Digits((r % b) * 10, b, n - 1)

\* The quotient a / b (b > 0) of two numbers of the same unit, in units of
\* 1/Scale, rounded down to a unit.
Over(a, b) == Digits(a, b, 8)

\* np.exp(-f) for 0 <= f < 1: the Taylor polynomial of degree j in Horner
\* form, t the part already summed
RECURSIVE ExpNegTaylor(_, _, _)
ExpNegTaylor(f, j, t) ==
    IF j = 0 THEN t
    ELSE ExpNegTaylor(f, j - 1, Scale - (Times(f, t) \div j))

\* np.exp(-n) for a natural number n: n factors of exp(-1) = 0.36787944...
RECURSIVE ExpNegWhole(_)
ExpNegWhole(n) ==
    IF n = 0 THEN Scale ELSE Times(ExpNegWhole(n - 1), 36787944)

\* np.exp(-x) for x >= 0, x and the result in units of 1/Scale: exp(-n) for
\* the whole part of x times the Taylor polynomial of degree 12 for the
\* fraction.  The result is within 0.0000001 (10 units) of the float; the
\* arguments are those a 32-bit integer holds (x below 21.47).
ExpNeg(x) == Times(ExpNegWhole(x \div Scale), ExpNegTaylor(x % Scale, 12, Scale))

\* 1 / (1 + np.exp(-x)), x and the result in units of 1/Scale; for x < 0
\* as exp(x) / (1 + exp(x)), the same number.  Within 0.0000001 of the float.
sigmoid(x) ==
    IF x >= 0 THEN Over(Scale, Scale + ExpNeg(x))
              ELSE Over(ExpNeg(0 - x), Scale + ExpNeg(0 - x))

\* lines 67 and 82 without the "1 -": the price ratio taken for the dilution
dilution_rate_ratio(price, copcar) == Over(price, copcar)

\* 1 - (price/copcar), in units of 1/Scale
dilution_rate(price, copcar) == Scale - Over(price, copcar)

\* churn_prob in tenths; the score in units of 1/Scale
calculate_retention_score(price, copcar, churn_prob) ==
    ((10 - churn_prob) * sigmoid(k * dilution_rate(price, copcar))) \div 10

\* lines 77-89: the retention branch for a feasible price
RetentionValue(price, offer, model, copcar) ==
    LET retention_score ==
            calculate_retention_score(price, copcar, 10 - model.model_probability)
    IN    Over(weights.profit * (copcar - price) * offer.conversion_rate,
               100 * UnitsPerCurrency)
        + Times(retention_score,
                Over(weights.retention * copcar, 10 * UnitsPerCurrency))
        + Times(Over(weights.efficiency * offer.conversion_rate, 100),
                dilution_rate(price, copcar))
        + Over(weights.probability * model.model_probability, 100)

\* lines 95-99: the other branch for a feasible price
GrowthValue(price, offer, model, copcar) ==
      Over(weights.profit * (copcar - price) * offer.conversion_rate,
           100 * UnitsPerCurrency)
    + Over(weights.efficiency * offer.conversion_rate * copcar,
           100 * Max(price, PriceFloor))
    + Over(weights.probability * model.model_probability, 100)

\* lines 70-101 with > for >= in the test of line 92
evaluate_offer_above(price, offer, model, copcar) ==
    IF model.model_category = RETENTION
    THEN IF price >= copcar
         THEN NegInf
         ELSE Fin(RetentionValue(price, offer, model, copcar))
    ELSE IF price > copcar
         THEN NegInf
         ELSE Fin(GrowthValue(price, offer, model, copcar))

evaluate_offer(price, offer, model, copcar) ==
    IF model.model_category = RETENTION
    THEN IF price >= copcar
         THEN NegInf
         ELSE Fin(RetentionValue(price, offer, model, copcar))
    ELSE IF price >= copcar
         THEN NegInf
         ELSE Fin(GrowthValue(price, offer, model, copcar))

-----------------------------------------------------------------------------
(* Requests: the pydantic models Offer, ModelInput, OptimizationRequest.    *)
(* Names and volumes are given by the position in the request.             *)

Offer(m, o, rates) ==
    { [offer_name |-> <<"Offer", m, o>>, price |-> p,
       volume |-> 10 * m + o, conversion_rate |-> r] :
          p \in PriceValues, r \in rates }

\* the lists of n offers of the model at position m
RECURSIVE OfferLists(_, _)
OfferLists(m, n) ==
    IF n = 0 THEN {<<>>}
    ELSE { Append(s, f) : s \in OfferLists(m, n - 1), f \in Offer(m, n, RateValues) }

ModelInput(m, probabilities, categories, offers) ==
    { [model_name |-> <<"Model", m>>, model_probability |-> q,
       model_category |-> c, available_offers |-> s] :
          q \in probabilities, c \in categories, s \in offers }

\* the lists of models for positions m, m + 1, ... with at most n offers in all
RECURSIVE ModelLists(_, _)
ModelLists(m, n) ==
    IF m > MaxModels THEN {<<>>}
    ELSE {<<>>} \cup
         UNION { { <<mdl>> \o rest :
                     mdl \in ModelInput(m, ProbabilityValues, CategoryValues,
                                        OfferLists(m, j)),
                     rest \in ModelLists(m + 1, n - j) } : j \in 0..n }

OptimizationRequest ==
    { [customer_id |-> id, copcar |-> c, models |-> ms] :
          id \in CustomerIds, c \in CopcarValues, ms \in ModelLists(1, MaxPairs) }

\* the arguments (offer, model, copcar) of a direct call of evaluate_offer,
\* held as a request of one model with one offer
EvaluateArguments ==
    { [customer_id |-> id, copcar |-> c, models |-> <<mdl>>] :
          id \in CustomerIds, c \in CopcarValues,
          mdl \in ModelInput(1, EvalProbabilities, ModelCategory,
                             { <<f>> : f \in Offer(1, 1, EvalRates) }) }

\* the prices evaluate_offer is called with: from below zero to above copcar
PriceArguments(copcar) == (0 - 2)..(copcar + 1)

-----------------------------------------------------------------------------
(* The Offer Selection Optimizer. *)

\* the (model, offer) index pairs in the order the nested loops visit them
RECURSIVE PairsFrom(_, _)
PairsFrom(models, m) ==
    IF m > Len(models) THEN <<>>
    ELSE [o \in 1..Len(models[m].available_offers) |-> <<m, o>>]
             \o PairsFrom(models, m + 1)

Pairs(req) == PairsFrom(req.models, 1)

ModelOf(req, pr) == req.models[pr[1]]
OfferOf(req, pr) == req.models[pr[1]].available_offers[pr[2]]

\* line 115 with > for >=: an offer priced exactly at copcar is let through
ExcludedAboveOnly(model, offer, copcar) ==
    model.model_category = RETENTION /\ offer.price > copcar

\* line 115: the retention offer that is not below copcar
Excluded(model, offer, copcar) ==
    model.model_category = RETENTION /\ offer.price >= copcar

\* n hundredths of x
Pct(n, x) == (n * x) \div 100

\* lines 119-130 with the retention lower bound at 0.2 of copcar
PriceBoundsLowered(model, offer, copcar) ==
    IF model.model_category = RETENTION
    THEN << Min(Pct(20, copcar), Pct(80, offer.price)),
            Min(Pct(90, copcar), offer.price) >>
    ELSE << Min(Pct(50, copcar), Pct(80, offer.price)),
            Min(Pct(95, copcar), offer.price) >>

\* lines 119-130 with the two ends of the box in the wrong order
PriceBoundsSwapped(model, offer, copcar) ==
    IF model.model_category = RETENTION
    THEN << Min(Pct(90, copcar), offer.price),
            Min(Pct(30, copcar), Pct(80, offer.price)) >>
    ELSE << Min(Pct(95, copcar), offer.price),
            Min(Pct(50, copcar), Pct(80, offer.price)) >>

\* lines 119-130
PriceBounds(model, offer, copcar) ==
    IF model.model_category = RETENTION
    THEN << Min(Pct(30, copcar), Pct(80, offer.price)),
            Min(Pct(90, copcar), offer.price) >>
    ELSE << Min(Pct(50, copcar), Pct(80, offer.price)),
            Min(Pct(95, copcar), offer.price) >>

\* line 133: the midpoint of the box.  The ends of every box of a request
\* are even numbers of money units, so the half is whole and the midpoint
\* is exact.
InitialPrice(bounds) == (bounds[1] + bounds[2]) \div 2

\* the points of the box the solver is taken to stop at: the two ends of the
\* box and the starting point
SolverPoints(x0, bounds) == {bounds[1], x0, bounds[2]}

\* lines 136-142: what the bounded solver may return on a well-formed box.
\* A run that reports success stops at any of the solver points; the point
\* of a run that reports failure is never read (line 150 is under
\* result.success) and is taken to be the starting point.
minimize(offer, model, copcar, x0, bounds) ==
    { [success |-> TRUE, x |-> x,
       fun |-> Neg(evaluate_offer(x, offer, model, copcar))] :
          x \in SolverPoints(x0, bounds) }
    \cup
    { [success |-> FALSE, x |-> x0,
       fun |-> Neg(evaluate_offer(x0, offer, model, copcar))] }

\* line 146 with >= for >
BetterOrEqual(value, best) == GE(value, best)

\* line 146
Better(value, best) == GT(value, best)

\* lines 144-146 without the test of result.success
SelectedUnchecked(res, best) == Better(Neg(res.fun), best)

\* lines 144-146: the candidate replaces the current best
Selected(res, best) == res.success /\ Better(Neg(res.fun), best)

\* line 152 with the first offer of a list taken for no offer
NoBestOrFirst(offer_ref) == offer_ref = None \/ offer_ref = 1

\* line 152
NoBest(offer_ref) == offer_ref = None

\* lines 158-168 with expected_profit taken from the optimized price
OptimizationResponseOptimized(req, value, model, offer, price) ==
    [customer_id |-> req.customer_id,
     copcar |-> req.copcar,
     opt_profit |-> value,
     expected_profit |-> req.copcar - price,
     model_name |-> model.model_name,
     offer_name |-> offer.offer_name,
     offer_price |-> price,
     actual_offer_price |-> offer.price,
     offer_volume |-> offer.volume]

\* lines 158-168
OptimizationResponse(req, value, model, offer, price) ==
    [customer_id |-> req.customer_id,
     copcar |-> req.copcar,
     opt_profit |-> value,
     expected_profit |-> req.copcar - offer.price,
     model_name |-> model.model_name,
     offer_name |-> offer.offer_name,
     offer_price |-> price,
     actual_offer_price |-> offer.price,
     offer_volume |-> offer.volume]

\* str(e) of the two exceptions the call can raise, as lists of text parts
NoSuitableOffer == <<"No suitable offer found">>
BoundsError == <<"SLSQP Error: lb > ub in bounds True.">>

\* line 171 without the customer identifier
LogLineAnonymous(req, msg) == <<"Error in optimization: ">> \o msg

\* line 171
LogLine(req, msg) ==
    <<"Error in optimization for customer ", req.customer_id, ": ">> \o msg

\* line 172
HTTPException(msg) == [status_code |-> 500, detail |-> msg]

NoBounds == <<0, 0>>
NoResult == [success |-> FALSE, x |-> 0, fun |-> Fin(0)]

InitOptimize ==
    /\ request \in OptimizationRequest
    /\ pc = "loop"
    /\ pos = 1
    /\ best_value = NegInf
    /\ best_model = None
    /\ best_offer = None
    /\ best_price = None
    /\ price_bounds = NoBounds
    /\ result = NoResult
    /\ response = <<>>
    /\ error = <<>>
    /\ log = <<>>
    /\ evaluated = <<>>
    /\ n_success = 0
    /\ top_value = NegInf
    /\ top_first = <<0, 0>>

InitEvaluate ==
    /\ request \in EvaluateArguments
    /\ pc = "eval"
    /\ pos = 1
    /\ best_value = NegInf
    /\ best_model = None
    /\ best_offer = None
    /\ best_price = None
    /\ price_bounds = NoBounds
    /\ result = NoResult
    /\ response = <<>>
    /\ error = <<>>
    /\ log = <<>>
    /\ evaluated = <<>>
    /\ n_success = 0
    /\ top_value = NegInf
    /\ top_first = <<0, 0>>

Init == InitOptimize \/ InitEvaluate

InLoop == pc = "loop" /\ pos <= Len(Pairs(request))
LoopEnded == pc = "loop" /\ pos > Len(Pairs(request))
Cur == Pairs(request)[pos]

\* lines 115-116: continue
Skip ==
    /\ InLoop
    /\ Excluded(ModelOf(request, Cur), OfferOf(request, Cur), request.copcar)
    /\ pos' = pos + 1
    /\ UNCHANGED <<request, pc, best_value, best_model, best_offer, best_price,
                   price_bounds, result, response, error, log, evaluated,
                   n_success, top_value, top_first>>

\* lines 170-172, entered from the solver call: inverted bounds raise ValueError
RaiseBounds(b) ==
    /\ pc' = "failed"
    /\ price_bounds' = b
    /\ error' = <<HTTPException(BoundsError)>>
    /\ log' = Append(log, LogLine(request, BoundsError))
    /\ UNCHANGED <<request, pos, best_value, best_model, best_offer, best_price,
                   result, response, evaluated,
                   n_success, top_value, top_first>>

\* lines 144-150, and the history of the successful runs
Record(res) ==
    LET value == Neg(res.fun)
    IN  /\ IF Selected(res, best_value)
           THEN /\ best_value' = value
                /\ best_model' = Cur[1]
                /\ best_offer' = Cur[2]
                /\ best_price' = res.x
           ELSE UNCHANGED <<best_value, best_model, best_offer, best_price>>
        /\ IF res.success
           THEN /\ n_success' = n_success + 1
                /\ top_value' = IF GT(value, top_value) THEN value ELSE top_value
                /\ top_first' = IF n_success = 0 \/ GT(value, top_value)
                                THEN Cur ELSE top_first
           ELSE UNCHANGED <<n_success, top_value, top_first>>

\* lines 118-150: one pass of the loop body for a pair that is not excluded
Optimize ==
    /\ InLoop
    /\ ~Excluded(ModelOf(request, Cur), OfferOf(request, Cur), request.copcar)
    /\ LET model == ModelOf(request, Cur)
           offer == OfferOf(request, Cur)
           b == PriceBounds(model, offer, request.copcar)
       IN  IF b[1] > b[2]
           THEN RaiseBounds(b)
           ELSE \E res \in minimize(offer, model, request.copcar,
                                    InitialPrice(b), b) :
                   /\ price_bounds' = b
                   /\ result' = res
                   /\ Record(res)
                   /\ pos' = pos + 1
                   /\ UNCHANGED <<request, pc, response, error, log, evaluated>>

\* lines 152-153 and 170-172
Fail ==
    /\ LoopEnded
    /\ NoBest(best_offer)
    /\ pc' = "failed"
    /\ error' = <<HTTPException(NoSuitableOffer)>>
    /\ log' = Append(log, LogLine(request, NoSuitableOffer))
    /\ UNCHANGED <<request, pos, best_value, best_model, best_offer, best_price,
                   price_bounds, result, response, evaluated,
                   n_success, top_value, top_first>>

\* lines 155-168
Return ==
    /\ LoopEnded
    /\ ~NoBest(best_offer)
    /\ pc' = "done"
    /\ response' = <<OptimizationResponse(request, best_value,
                        request.models[best_model],
                        request.models[best_model].available_offers[best_offer],
                        best_price)>>
    /\ UNCHANGED <<request, pos, best_value, best_model, best_offer, best_price,
                   price_bounds, result, error, log, evaluated,
                   n_success, top_value, top_first>>

\* lines 70-101: a direct call evaluate_offer(price, offer, model, copcar)
Evaluate ==
    /\ pc = "eval"
    /\ \E price \in PriceArguments(request.copcar) :
           evaluated' = << [price |-> price,
                            value |-> evaluate_offer(price,
                                          OfferOf(request, <<1, 1>>),
                                          ModelOf(request, <<1, 1>>),
                                          request.copcar)] >>
    /\ UNCHANGED <<request, pc, pos, best_value, best_model, best_offer,
                   best_price, price_bounds, result, response, error, log,
                   n_success, top_value, top_first>>

Next == Skip \/ Optimize \/ Fail \/ Return \/ Evaluate

Spec == Init /\ [][Next]_vars

-----------------------------------------------------------------------------
(* What the claims speak of, stated apart from the definitions above. *)

AllPairs == { Pairs(request)[i] : i \in 1..Len(Pairs(request)) }

\* the pairs of the request that carry the names of the returned result
NamedPairs ==
    { pr \in AllPairs :
        /\ ModelOf(request, pr).model_name = response[1].model_name
        /\ OfferOf(request, pr).offer_name = response[1].offer_name }

\* a retention offer whose catalog price is not below copcar
AtOrAboveCopcar(pr) ==
    /\ ModelOf(request, pr).model_category = "retention"
    /\ OfferOf(request, pr).price >= request.copcar

\* the failure "No suitable offer found" as the caller sees it
NoSuitableOfferError == <<[status_code |-> 500, detail |-> <<"No suitable offer found">>]>>

\* the bounds of section 4.2 for a category, a copcar and a catalog price
SpecLow(category, copcar, price) ==
    IF category = "retention"
    THEN Min((3 * copcar) \div 10, (8 * price) \div 10)
    ELSE Min((5 * copcar) \div 10, (8 * price) \div 10)
SpecHigh(category, copcar, price) ==
    IF category = "retention"
    THEN Min((9 * copcar) \div 10, price)
    ELSE Min((95 * copcar) \div 100, price)

-----------------------------------------------------------------------------
\* C1 (1/3): the offer named in a returned result is never a retention offer
\* whose catalog price is >= copcar.
C1_NeverSelected ==
    pc = "done" => \A pr \in NamedPairs : ~AtOrAboveCopcar(pr)

\* C1 (2/3): such an offer is passed over before bounds are computed or the
\* solver is run: the step only moves on to the next pair.
C1_SkippedFirst ==
    (InLoop /\ AtOrAboveCopcar(Cur)) =>
        /\ pos' = pos + 1
        /\ UNCHANGED <<pc, price_bounds, result, best_value, best_model,
                       best_offer, best_price, n_success>>

\* C1 (3/3): when every offer of the request is such an offer, the call ends
\* with the no-suitable-offer error.
C1_AllExcludedFails ==
    (pc \in {"done", "failed"} /\ \A pr \in AllPairs : AtOrAboveCopcar(pr)) =>
        (pc = "failed" /\ error = NoSuitableOfferError)

\* C1: a retention offer with catalog price >= copcar is skipped before any
\* bounds or solver run, is never the offer of the returned result, and a
\* request of only such offers fails with the no-suitable-offer error.
C1_ExclusionIsHard ==
    [](C1_NeverSelected /\ C1_AllExcludedFails) /\ [][C1_SkippedFirst]_vars

C1_Witness ==
    /\ pc = "done"
    /\ \E pr \in AllPairs : AtOrAboveCopcar(pr)

-----------------------------------------------------------------------------
\* a result with every field set, for this request and one of its pairs
Complete(r) ==
    /\ DOMAIN r = {"customer_id", "copcar", "opt_profit", "expected_profit",
                   "model_name", "offer_name", "offer_price",
                   "actual_offer_price", "offer_volume"}
    /\ r.customer_id = request.customer_id
    /\ r.copcar = request.copcar
    /\ IsFinite(r.opt_profit)
    /\ r.offer_price > 0
    /\ \E pr \in AllPairs :
          /\ r.model_name = ModelOf(request, pr).model_name
          /\ r.offer_name = OfferOf(request, pr).offer_name
          /\ r.actual_offer_price = OfferOf(request, pr).price
          /\ r.offer_volume = OfferOf(request, pr).volume

\* C2: the call fails with the no-suitable-offer error exactly when no pair of
\* the request had a successful solver run; otherwise it returns exactly one
\* complete result, and a failed call returns nothing.
C2_FailsIffNoSuccess ==
    /\ pc = "failed" =>
          (n_success = 0 /\ error = NoSuitableOfferError /\ response = <<>>)
    /\ pc = "done" =>
          (n_success > 0 /\ error = <<>> /\ Len(response) = 1
             /\ Complete(response[1]))
    /\ pc \in {"loop", "eval"} => (error = <<>> /\ response = <<>>)

\* a call that failed although some pair was optimized: every solver run failed
C2_Witness ==
    /\ pc = "failed"
    /\ \E pr \in AllPairs : ~AtOrAboveCopcar(pr)

-----------------------------------------------------------------------------
\* C3: the returned offer_price p satisfies 0 < p <= copcar and lies within
\* the bounds of its category for the selected offer's catalog price.
C3_BoundsContainment ==
    pc = "done" =>
        \A pr \in NamedPairs :
            LET category == ModelOf(request, pr).model_category
                price == OfferOf(request, pr).price
                p == response[1].offer_price
            IN  /\ 0 < p
                /\ p <= request.copcar
                /\ SpecLow(category, request.copcar, price) <= p
                /\ p <= SpecHigh(category, request.copcar, price)

\* a retention result priced at the upper end of its box
C3_Witness ==
    /\ pc = "done"
    /\ \E pr \in NamedPairs :
          /\ ModelOf(request, pr).model_category = "retention"
          /\ response[1].offer_price =
                SpecHigh("retention", request.copcar, OfferOf(request, pr).price)

-----------------------------------------------------------------------------
\* C4: the returned candidate has the greatest score among the successfully
\* optimized ones (opt_profit >= every such score), and among several with
\* that score it is the one visited first.
C4_BestFirstSeen ==
    pc = "done" =>
        /\ response[1].opt_profit = top_value
        /\ NamedPairs = {top_first}

\* a tie: the last solver run succeeded with the greatest score, after another
\* success, and the result is the first pair of the request
C4_Witness ==
    /\ pc = "done"
    /\ n_success >= 2
    /\ result.success
    /\ Neg(result.fun) = top_value
    /\ NamedPairs = {<<1, 1>>}

-----------------------------------------------------------------------------
\* C5: expected_profit is copcar minus actual_offer_price, actual_offer_price
\* is the selected offer's catalog price, and every field of the result
\* comes from the one selected (model, offer) pair.
C5_ProfitIdentity ==
    pc = "done" =>
        LET r == response[1]
            model == request.models[best_model]
            offer == model.available_offers[best_offer]
        IN  /\ r.expected_profit = request.copcar - r.actual_offer_price
            /\ r.actual_offer_price = offer.price
            /\ r.model_name = model.model_name
            /\ r.offer_name = offer.offer_name
            /\ r.offer_volume = offer.volume
            /\ r.offer_price = best_price
            /\ r.opt_profit = best_value

\* a result whose optimized price differs from the catalog price
C5_Witness ==
    /\ pc = "done"
    /\ response[1].offer_price # response[1].actual_offer_price

-----------------------------------------------------------------------------
\* C6: evaluate_offer is negative infinity for every price >= copcar and
\* finite for every price < copcar, in both branches; every returned
\* offer_price leaves copcar - offer_price > 0.
C6_Feasibility ==
    /\ Len(evaluated) = 1 =>
          /\ evaluated[1].price >= request.copcar => evaluated[1].value = NegInf
          /\ evaluated[1].price < request.copcar => IsFinite(evaluated[1].value)
    /\ pc = "done" => request.copcar - response[1].offer_price > 0

\* the non-retention branch called with price = copcar
C6_Witness ==
    /\ Len(evaluated) = 1
    /\ evaluated[1].price = request.copcar
    /\ ModelOf(request, <<1, 1>>).model_category # "retention"

-----------------------------------------------------------------------------
\* the text parts of a message include this customer identifier
Carries(msg, id) == \E i \in DOMAIN msg : msg[i] = id

\* C7, as claimed: the one failure the caller gets on "no suitable offer"
\* carries the request's customer identifier.
C7_ErrorCarriesCustomer ==
    (pc = "failed" /\ n_success = 0) =>
        /\ Len(error) = 1
        /\ Carries(error[1].detail, request.customer_id)

\* C7, amended: on "no suitable offer" the caller gets one HTTPException of
\* status 500 whose detail is the text "No suitable offer found" and holds no
\* customer identifier; the identifier is in the one line written to the log.
C7_CustomerOnlyInLog ==
    (pc = "failed" /\ n_success = 0) =>
        /\ error = NoSuitableOfferError
        /\ ~Carries(error[1].detail, request.customer_id)
        /\ Len(log) = 1
        /\ Carries(log[1], request.customer_id)
        /\ response = <<>>

C7_Witness ==
    /\ pc = "failed"
    /\ n_success = 0
    /\ Len(error) = 1
    /\ Len(log) = 1

-----------------------------------------------------------------------------
\* catalog prices and copcars on which both bounds formulas are exact
SweepCopcars == { 20 * i : i \in 1..5 }
SweepPrices == { 5 * i : i \in 1..40 }

\* the box the code computes for a category, a catalog price and a copcar
BoxFor(category, price, copcar) ==
    PriceBounds([model_category |-> category], [price |-> price], copcar)

\* C8, as claimed: some input within the input constraints (copcar > 0,
\* price > 0, price < copcar for retention) gets inverted bounds, low > high.
C8_SomeBoundsInverted ==
    \E category \in ModelCategory, copcar \in SweepCopcars \cup {request.copcar},
       price \in SweepPrices :
        /\ category = "retention" => price < copcar
        /\ BoxFor(category, price, copcar)[1] > BoxFor(category, price, copcar)[2]

\* C8, amended: no input within the input constraints gets inverted bounds:
\* low <= high for both formulas, for every box a call computes and, as a
\* call starts, for every catalog price of the sweep at the call's copcar.
C8_BoundsNeverInverted ==
    /\ price_bounds[1] <= price_bounds[2]
    /\ (pc = "loop" /\ pos = 1) =>
          \A category \in ModelCategory, price \in SweepPrices :
              (category = "retention" => price < request.copcar) =>
                  BoxFor(category, price, request.copcar)[1]
                      <= BoxFor(category, price, request.copcar)[2]

\* a box was computed for a retention offer below copcar
C8_Witness ==
    /\ pc = "loop"
    /\ pos > 1
    /\ price_bounds # NoBounds
    /\ ModelOf(request, Pairs(request)[pos - 1]).model_category = "retention"
    /\ price_bounds = BoxFor("retention",
                             OfferOf(request, Pairs(request)[pos - 1]).price,
                             request.copcar)

-----------------------------------------------------------------------------
\* C9: a pass of the loop whose solver run reports failure, or succeeds with a
\* score not strictly greater than best_value, leaves the accumulator as it
\* was and goes on to the next pair; the call is not aborted.
C9_Step ==
    (InLoop /\ ~AtOrAboveCopcar(Cur)) =>
        /\ pc' = "loop"
        /\ pos' = pos + 1
        /\ error' = <<>>
        /\ (~result'.success \/ ~GT(Neg(result'.fun), best_value)) =>
              UNCHANGED <<best_value, best_model, best_offer, best_price>>

C9_FailureIsSkipped == [][C9_Step]_vars

\* the last solver run failed, the best found before it is still held, and
\* the call has gone on past that pair without an error
C9_Witness ==
    /\ pc = "loop"
    /\ pos > 2
    /\ result # NoResult
    /\ ~result.success
    /\ best_offer # None
    /\ error = <<>>

-----------------------------------------------------------------------------
\* C10 (1/2): of two direct evaluations at feasible prices, 0.01 <= p1 < p2 <
\* copcar, the one at the lower price is strictly greater.
C10_Decreasing ==
    (/\ pc = "eval"
     /\ Len(evaluated) = 1
     /\ Len(evaluated') = 1
     /\ PriceFloor <= evaluated[1].price
     /\ evaluated[1].price < evaluated'[1].price
     /\ evaluated'[1].price < request.copcar) =>
        GT(evaluated[1].value, evaluated'[1].value)

\* C10 (2/2): over the box of the pair the loop is at, when its lower end is
\* at least 0.01, the objective is greatest at the lower end and only there.
C10_MaxAtLow ==
    (InLoop /\ ~AtOrAboveCopcar(Cur)) =>
        LET model == ModelOf(request, Cur)
            offer == OfferOf(request, Cur)
            b == PriceBounds(model, offer, request.copcar)
        IN  (PriceFloor <= b[1] /\ b[2] < request.copcar) =>
                \A x \in (b[1] + 1)..b[2] :
                    GT(evaluate_offer(b[1], offer, model, request.copcar),
                       evaluate_offer(x, offer, model, request.copcar))

\* C10: evaluate_offer is strictly decreasing in price over the feasible
\* prices from 0.01 to copcar, in both branches, so the maximum over a box
\* within that range is attained only at the lower bound.
C10_StrictlyDecreasing == [][C10_Decreasing]_vars /\ []C10_MaxAtLow

\* a non-retention evaluation at a feasible price above the 0.01 floor
C10_Witness ==
    /\ pc = "eval"
    /\ Len(evaluated) = 1
    /\ PriceFloor < evaluated[1].price
    /\ evaluated[1].price < request.copcar
    /\ ModelOf(request, <<1, 1>>).model_category # "retention"

====
